---- MODULE Spec2Model ----
(***************************************************************************)
(* A model of issues.go: fetchIssues (fan-out of one issueSearch worker    *)
(* per label, a closer goroutine, a fan-in select), dedupe, and            *)
(* languageFetcher.repoLanguages with its per-instance cache.              *)
(*                                                                         *)
(* Five specifications share the module:                                   *)
(*   Spec        one call of fetchIssues, all goroutines interleaved       *)
(*   SpecFair    the same call with every goroutine scheduled fairly       *)
(*   SpecDedupe  dedupe applied to every bounded input list                *)
(*   SpecRank    one repoLanguages call on a fresh fetcher, for every      *)
(*               language-to-weight mapping and map iteration order        *)
(*   SpecLF      a sequence of repoLanguages calls on one fetcher instance *)
(***************************************************************************)
EXTENDS Integers, Sequences, FiniteSets, TLC

\* ------------------------------------------------------------------ bounds

\* Longest item list one search response carries.
MaxItems == 2
\* Longest input list handed to dedupe in SpecDedupe.
MaxLen == 3
\* Number of repoLanguages calls made on the fetcher instance of SpecLF.
MaxCalls == 3

\* --------------------------------------------------------- program constants

\* labels := []string{"hacktoberfest", "help wanted"}
labels == {"hacktoberfest", "help wanted"}
\* The only status the code accepts (resp.StatusCode != 200).
StatusOK == 200
\* "if i > 2 { break }": at most three languages are kept.
TopLangs == 3

\* ------------------------------------------------------------------- state

\* One call of fetchIssues (Spec)
VARIABLES
    catalog,      \* the open issues the search endpoint holds in this run
    wpc,          \* each worker goroutine's position
    sresp,        \* the search response each worker received
    idx,          \* the index of the item a worker's range loop is at
    languages,    \* issueSearch's local: the languages of the item at hand
    werr,         \* what issueSearch returned to the worker's goroutine
    reqs,         \* the languages requests that left each worker, with their answers
    errors,       \* the buffered error channel's content
    wg,           \* the WaitGroup's counter
    closed,       \* whether ch has been closed
    cpc,          \* the closer goroutine's position
    mpc,          \* fetchIssues' own position
    issues,       \* fetchIssues' local: the records received so far
    ret,          \* what fetchIssues returned
    callerDone,   \* the caller's context is done
    cancelCalled  \* cancel() has been called on the child context

pipeVars == <<catalog, wpc, sresp, idx, languages, werr, reqs, errors, wg, closed,
              cpc, mpc, issues, ret, callerDone, cancelCalled>>

\* dedupe, applied (SpecDedupe)
VARIABLES
    dedupeIn,     \* the list handed to dedupe
    dedupeOut,    \* dedupe(dedupeIn)
    dedupeTwice,  \* dedupe(dedupeOut)
    dpc           \* how often dedupe has been applied

dedupeVars == <<dedupeIn, dedupeOut, dedupeTwice, dpc>>

\* One languageFetcher instance (SpecLF, SpecRank)
VARIABLES
    fetchedRepos, \* lf.fetchedRepos
    calls         \* the repoLanguages calls made on lf so far: what each was
                  \* called with, the answer it got and what it returned

lfVars == <<fetchedRepos, calls>>

\* ------------------------------------------------------------------ values

\* A nil error; every other error is the message it was wrapped with.
NoErr == "nil"

Range(s) == {s[i] : i \in DOMAIN s}

Min(a, b) == IF a < b THEN a ELSE b

\* errors.Wrap / errors.Wrapf of github.com/pkg/errors: a nil err stays nil.
\* The message keeps its cause: msg + ": " + err.Error().
Wrapf(err, msg) == IF err = NoErr THEN NoErr ELSE msg \o ": " \o err

\* The error http.DefaultClient.Do returns: the context's error when the
\* request's context is already done (no request leaves), the transport's
\* error otherwise.
DoErr(done, resp) ==
    IF done THEN "context canceled"
    ELSE IF resp.doErr THEN "connection refused" ELSE NoErr

\* ----------------------------------------------------------------- dedupe

DedupeURLs == {"u1", "u2"}
DedupeTitles == {"a", "b"}
\* The Issue values dedupe is tried on: URL is the identity, Title tells two
\* records of one URL apart.
DedupeIssues == [Title : DedupeTitles, URL : DedupeURLs]

SeqsUpTo(S, n) == UNION {[1..k -> S] : k \in 0..n}

\* for _, i := range in { if seen[i.URL] == 0 { uniq = append(uniq, i) }; seen[i.URL]++ }
\* seen is the map[string]int: a missing key reads 0.
RECURSIVE dedupeLoop(_, _, _, _)
dedupeLoop(in, k, uniq, seen) ==
    IF k > Len(in) THEN uniq
    ELSE LET i == in[k]
             n == IF i.URL \in DOMAIN seen THEN seen[i.URL] ELSE 0
             uniq2 == IF n = 0 THEN Append(uniq, i) ELSE uniq
             seen2 == [u \in DOMAIN seen \cup {i.URL} |->
                          IF u = i.URL THEN n + 1 ELSE seen[u]]
         IN dedupeLoop(in, k + 1, uniq2, seen2)

\* A dedupe that forgets what it has seen before the previous record: it
\* drops only adjacent duplicates.
RECURSIVE dedupeAdjacentLoop(_, _, _)
dedupeAdjacentLoop(in, k, uniq) ==
    IF k > Len(in) THEN uniq
    ELSE dedupeAdjacentLoop(in, k + 1,
            IF k > 1 /\ in[k - 1].URL = in[k].URL THEN uniq ELSE Append(uniq, in[k]))
dedupeAdjacent(in) == dedupeAdjacentLoop(in, 1, <<>>)

\* A dedupe with its test inverted (seen[i.URL] != 0): it keeps the repeats.
dedupeRepeats(in) ==
    LET marked == [k \in 1..Len(in) |->
                      [i |-> in[k], rep |-> \E j \in 1..(k - 1) : in[j].URL = in[k].URL]]
        kept == SelectSeq(marked, LAMBDA e : e.rep)
    IN [k \in 1..Len(kept) |-> kept[k].i]

dedupe(in) == dedupeLoop(in, 1, <<>>, <<>>)

\* ------------------------------------------------------- repoLanguages

Langs == {"Go", "HTML", "CSS", "JS"}
Weights == {10, 50, 300, 500}

\* Every language-to-weight mapping the languages endpoint can answer with.
AllData == UNION {[S -> Weights] : S \in SUBSET Langs}

\* The iteration orders "for k, v := range data" can take.
Orders(S) ==
    {o \in [1..Cardinality(S) -> S] : \A i, j \in DOMAIN o : i # j => o[i] # o[j]}

\* sort.Sort(sort.Reverse(sort.IntSlice(keys))): keys in non-increasing order.
RECURSIVE InsertDesc(_, _)
InsertDesc(s, x) ==
    IF s = <<>> THEN <<x>>
    ELSE IF x >= Head(s) THEN <<x>> \o s
    ELSE <<Head(s)>> \o InsertDesc(Tail(s), x)

RECURSIVE SortDesc(_)
SortDesc(s) == IF s = <<>> THEN <<>> ELSE InsertDesc(SortDesc(Tail(s)), Head(s))

\* keys = append(keys, v); sortMap[v] = k, in iteration order: a later
\* language of the same weight overwrites the earlier one in sortMap.
\* Then the first three of the sorted keys are looked up in sortMap.
topLangs(data, order) ==
    LET n == Len(order)
        keys == [i \in 1..n |-> data[order[i]]]
        last(v) == CHOOSE i \in 1..n :
                      /\ keys[i] = v
                      /\ \A j \in 1..n : keys[j] = v => j <= i
        sortMap == [v \in Range(keys) |-> order[last(v)]]
        sorted == SortDesc(keys)
    IN [i \in 1..Min(TopLangs, n) |-> sortMap[sorted[i]]]

\* A cache that counts a one-element list as absent.
CacheHitLong(cache, repoURL) == Len(cache[repoURL]) > 1
\* A cache test that takes an empty list for a cached result (len >= 0).
CacheHitEmpty(cache, repoURL) == Len(cache[repoURL]) >= 0
\* if len(lf.fetchedRepos[repoURL]) > 0
CacheHit(cache, repoURL) == Len(cache[repoURL]) > 0

\* lf.repoLanguages(ctx, repoURL, token) on a fetcher whose fetchedRepos is
\* cache, when the endpoint would answer resp and the decoded map is
\* iterated in order. Yields the returned list and error, the cache after
\* the call, and whether a request left for the endpoint.
\* http.NewRequest fails only on an unparsable URL; every URL of the model
\* parses, so the Request-Build branch is never taken.
repoLanguages(cache, done, repoURL, resp, order) ==
    LET err == DoErr(done, resp)
        miss(l, e, out) == [langs |-> l, err |-> e, fetchedRepos |-> cache,
                            outbound |-> out]
    IN IF CacheHit(cache, repoURL)
         THEN miss(cache[repoURL], NoErr, FALSE)
       ELSE IF err # NoErr
         THEN miss(<<>>, Wrapf(err, "could not execute request"), ~done)
       ELSE IF resp.status # StatusOK
         THEN miss(<<>>, Wrapf(err, "status was not 200"), TRUE)
       ELSE IF resp.decodeErr
         THEN miss(<<>>, Wrapf("unexpected EOF", "could not decode json"), TRUE)
       ELSE LET l == topLangs(resp.data, order)
            IN [langs |-> l, err |-> NoErr,
                fetchedRepos |-> [cache EXCEPT ![repoURL] = l],
                outbound |-> TRUE]

\* ------------------------------------------------------------- fetchIssues

\* cCtx, cancel := context.WithCancel(ctx): done once the parent is done or
\* cancel was called.
ctxDone == callerDone \/ cancelCalled

\* What a search can return: the items' json fields title, url and
\* repository_url (created_at is carried along like title and is left out).
\* An item's url may be empty and its repository_url may be malformed.
Item1 == [title |-> "t1", url |-> "u1", repository_url |-> "r1"]
Item2 == [title |-> "t2", url |-> "u2", repository_url |-> "r2"]
ItemNoURL == [title |-> "t3", url |-> "", repository_url |-> "r1"]
ItemBadRepo == [title |-> "t4", url |-> "u2", repository_url |-> "bad"]
Items == {Item1, Item2, ItemNoURL, ItemBadRepo}

\* The open issues a run's searches draw their items from: the two searches
\* of one run see the same tracked repositories.
Catalogs == {{Item1, Item2}, {Item1, ItemNoURL}, {Item1, ItemBadRepo}}

RepoURLs == {it.repository_url : it \in Items}

\* The answers of the search endpoint: the transport fails, the status is
\* not 200, the body does not decode, or the body holds a list of items.
SearchFailures ==
    { [doErr |-> TRUE, status |-> 0, decodeErr |-> FALSE, items |-> <<>>],
      [doErr |-> FALSE, status |-> 403, decodeErr |-> FALSE, items |-> <<>>],
      [doErr |-> FALSE, status |-> StatusOK, decodeErr |-> TRUE, items |-> <<>>] }
SearchResponses ==
    SearchFailures \cup
    { [doErr |-> FALSE, status |-> StatusOK, decodeErr |-> FALSE, items |-> l] :
        l \in SeqsUpTo(catalog, MaxItems) }
\* No answer (yet): status 0.
NoSearch == [doErr |-> FALSE, status |-> 0, decodeErr |-> FALSE, items |-> <<>>]

\* The answers of the languages endpoint in a run of fetchIssues.
ExampleData == [l \in Langs |->
    CASE l = "Go" -> 500 [] l = "HTML" -> 300 [] l = "CSS" -> 50 [] OTHER -> 10]
LangFailures ==
    { [doErr |-> TRUE, status |-> 0, decodeErr |-> FALSE, data |-> <<>>],
      [doErr |-> FALSE, status |-> 404, decodeErr |-> FALSE, data |-> <<>>],
      [doErr |-> FALSE, status |-> StatusOK, decodeErr |-> TRUE, data |-> <<>>] }
LangResponsesOf(D) ==
    LangFailures \cup
    { [doErr |-> FALSE, status |-> StatusOK, decodeErr |-> FALSE, data |-> d] : d \in D }
\* In a run of fetchIssues the endpoint is taken to fail in transport, to
\* answer with another status, or to answer with the example mapping (a
\* body that does not decode takes the same path as a failed transport,
\* an empty mapping yields the same nil list as another status).
PipeLangResponses == {r \in LangResponsesOf({ExampleData}) : ~r.decodeErr}
NoLang == [doErr |-> FALSE, status |-> 0, decodeErr |-> FALSE, data |-> <<>>]

\* repoFromURL(item.RepoURL): the owner/name of a repository URL of the
\* expected shape, an error otherwise.
repoFromURL(u) ==
    IF u \in {"r1", "r2"} THEN [repo |-> u, err |-> NoErr]
    ELSE [repo |-> "", err |-> "malformed repo url"]

\* newLanguageFetcher(): an empty map; a missing key reads as a nil slice.
newLanguageFetcher == [u \in RepoURLs |-> <<>>]

\* fetchIssues at its for-select loop, its goroutines spawned (pc = "search",
\* m = "loop"), or no call of fetchIssues at all (pc = m = "off").
PipeStart(pc, m) ==
    /\ wpc = [w \in labels |-> pc]
    /\ sresp = [w \in labels |-> NoSearch]
    /\ idx = [w \in labels |-> 0]
    /\ languages = [w \in labels |-> <<>>]
    /\ werr = [w \in labels |-> NoErr]
    /\ reqs = [w \in labels |-> <<>>]
    /\ errors = <<>>
    /\ wg = Cardinality(labels)
    /\ closed = FALSE
    /\ cpc = "wait"
    /\ mpc = m
    /\ issues = <<>>
    /\ ret = [issues |-> <<>>, isNil |-> TRUE, err |-> NoErr]
    /\ callerDone = FALSE
    /\ cancelCalled = FALSE

PipeInit == catalog \in Catalogs /\ PipeStart("search", "loop")
PipeOff == catalog = {} /\ PipeStart("off", "off")

\* issueSearch returns err to the goroutine of fetchIssues: a non-nil err
\* is next reported on errors, a nil one leads straight to wg.Done().
Return(w, err) ==
    /\ werr' = [werr EXCEPT ![w] = err]
    /\ wpc' = [wpc EXCEPT ![w] = IF err # NoErr THEN "report" ELSE "done"]

\* issueSearch up to the range loop: the request, the status check and the
\* decoding of data.Items.
Search(w) ==
    /\ wpc[w] = "search"
    /\ \E resp \in (IF ctxDone THEN {NoSearch} ELSE SearchResponses) :
         LET err == DoErr(ctxDone, resp)
         IN /\ sresp' = [sresp EXCEPT ![w] = resp]
            /\ IF err # NoErr
                 THEN Return(w, Wrapf(err, "could not execute request")) /\ idx' = idx
               ELSE IF resp.status # StatusOK
                 THEN Return(w, Wrapf(err, "status was not 200")) /\ idx' = idx
               ELSE IF resp.decodeErr
                 THEN Return(w, Wrapf("unexpected EOF", "could not decode json"))
                      /\ idx' = idx
               ELSE IF resp.items = <<>>
                 THEN Return(w, NoErr) /\ idx' = idx
               ELSE /\ wpc' = [wpc EXCEPT ![w] = "lang"]
                    /\ idx' = [idx EXCEPT ![w] = 1]
                    /\ werr' = werr
    /\ UNCHANGED <<dedupeVars, lfVars>>
    /\ UNCHANGED <<catalog, languages, reqs, errors, wg, closed, cpc, mpc, issues, ret,
                   callerDone, cancelCalled>>

\* lf := newLanguageFetcher(); languages, err := lf.repoLanguages(ctx, item.RepoURL, token)
FetchLanguages(w) ==
    /\ wpc[w] = "lang"
    /\ LET item == sresp[w].items[idx[w]]
       IN \E resp \in (IF ctxDone THEN {NoLang} ELSE PipeLangResponses) :
          \E order \in Orders(DOMAIN resp.data) :
            LET r == repoLanguages(newLanguageFetcher, ctxDone, item.repository_url,
                                   resp, order)
            IN /\ reqs' = [reqs EXCEPT ![w] =
                     IF r.outbound
                       THEN Append(@, [repoURL |-> item.repository_url, resp |-> resp])
                       ELSE @]
               /\ IF r.err # NoErr
                    THEN Return(w, r.err) /\ languages' = languages
                    ELSE /\ languages' = [languages EXCEPT ![w] = r.langs]
                         /\ wpc' = [wpc EXCEPT ![w] = "parse"]
                         /\ werr' = werr
    /\ UNCHANGED <<dedupeVars, lfVars>>
    /\ UNCHANGED <<catalog, sresp, idx, errors, wg, closed, cpc, mpc, issues, ret,
                   callerDone, cancelCalled>>

\* issue.Repo, err = repoFromURL(item.RepoURL)
ParseRepo(w) ==
    /\ wpc[w] = "parse"
    /\ LET item == sresp[w].items[idx[w]]
           r == repoFromURL(item.repository_url)
       IN IF r.err # NoErr
            THEN Return(w, Wrapf(r.err, "could not identify repo"))
            ELSE wpc' = [wpc EXCEPT ![w] = "send"] /\ werr' = werr
    /\ UNCHANGED <<dedupeVars, lfVars>>
    /\ UNCHANGED <<catalog, sresp, idx, languages, reqs, errors, wg, closed, cpc, mpc,
                   issues, ret, callerDone, cancelCalled>>

\* The Issue issueSearch has built for the item it is at.
IssueOf(w) ==
    LET item == sresp[w].items[idx[w]]
    IN [Title |-> item.title, URL |-> item.url,
        Repo |-> repoFromURL(item.repository_url).repo, Languages |-> languages[w]]

\* The range loop moves to the next item, or issueSearch returns nil.
NextItem(w) ==
    /\ languages' = [languages EXCEPT ![w] = <<>>]
    /\ IF idx[w] < Len(sresp[w].items)
         THEN /\ idx' = [idx EXCEPT ![w] = @ + 1]
              /\ wpc' = [wpc EXCEPT ![w] = "lang"]
              /\ werr' = werr
         ELSE Return(w, NoErr) /\ idx' = idx

\* "case ch <- issue" of the worker meets "case i, open := <-ch" of the
\* fan-in loop: ch is unbuffered, so the send and the receive are one step,
\* followed by issues = append(issues, i).
SendIssue(w) ==
    /\ wpc[w] = "send"
    /\ mpc = "loop"
    /\ ~closed
    /\ issues' = Append(issues, IssueOf(w))
    /\ NextItem(w)
    /\ UNCHANGED <<dedupeVars, lfVars>>
    /\ UNCHANGED <<catalog, sresp, reqs, errors, wg, closed, cpc, mpc, ret, callerDone,
                   cancelCalled>>

\* A select whose cancellation case returns ctx.Err() instead of nil.
StopEarlyErr(w) ==
    /\ wpc[w] = "send"
    /\ ctxDone
    /\ Return(w, "context canceled")
    /\ UNCHANGED <<dedupeVars, lfVars>>
    /\ UNCHANGED <<catalog, sresp, idx, languages, reqs, errors, wg, closed, cpc, mpc,
                   issues, ret, callerDone, cancelCalled>>

\* "case <-ctx.Done(): return nil"
StopEarly(w) ==
    /\ wpc[w] = "send"
    /\ ctxDone
    /\ Return(w, NoErr)
    /\ UNCHANGED <<dedupeVars, lfVars>>
    /\ UNCHANGED <<catalog, sresp, idx, languages, reqs, errors, wg, closed, cpc, mpc,
                   issues, ret, callerDone, cancelCalled>>

\* An error channel with room for one value: make(chan error, 1).
ReportErrorSmall(w) ==
    /\ wpc[w] = "report"
    /\ Len(errors) < 1
    /\ errors' = Append(errors, werr[w])
    /\ wpc' = [wpc EXCEPT ![w] = "done"]
    /\ UNCHANGED <<dedupeVars, lfVars>>
    /\ UNCHANGED <<catalog, sresp, idx, languages, werr, reqs, wg, closed, cpc, mpc,
                   issues, ret, callerDone, cancelCalled>>

\* "errors <- err": a send on a channel buffered for len(labels) values.
ReportError(w) ==
    /\ wpc[w] = "report"
    /\ Len(errors) < Cardinality(labels)
    /\ errors' = Append(errors, werr[w])
    /\ wpc' = [wpc EXCEPT ![w] = "done"]
    /\ UNCHANGED <<dedupeVars, lfVars>>
    /\ UNCHANGED <<catalog, sresp, idx, languages, werr, reqs, wg, closed, cpc, mpc,
                   issues, ret, callerDone, cancelCalled>>

\* wg.Done()
WgDone(w) ==
    /\ wpc[w] = "done"
    /\ wg' = wg - 1
    /\ wpc' = [wpc EXCEPT ![w] = "exit"]
    /\ UNCHANGED <<dedupeVars, lfVars>>
    /\ UNCHANGED <<catalog, sresp, idx, languages, werr, reqs, errors, closed, cpc, mpc,
                   issues, ret, callerDone, cancelCalled>>

\* A closer that does not wait for the workers.
CloserWaitNone ==
    /\ cpc = "wait"
    /\ cpc' = "close"
    /\ UNCHANGED <<dedupeVars, lfVars>>
    /\ UNCHANGED <<catalog, wpc, sresp, idx, languages, werr, reqs, errors, wg, closed,
                   mpc, issues, ret, callerDone, cancelCalled>>

\* A closer that waits for one worker only.
CloserWaitOne ==
    /\ cpc = "wait"
    /\ wg < Cardinality(labels)
    /\ cpc' = "close"
    /\ UNCHANGED <<dedupeVars, lfVars>>
    /\ UNCHANGED <<catalog, wpc, sresp, idx, languages, werr, reqs, errors, wg, closed,
                   mpc, issues, ret, callerDone, cancelCalled>>

\* wg.Wait() returns
CloserWait ==
    /\ cpc = "wait"
    /\ wg = 0
    /\ cpc' = "close"
    /\ UNCHANGED <<dedupeVars, lfVars>>
    /\ UNCHANGED <<catalog, wpc, sresp, idx, languages, werr, reqs, errors, wg, closed,
                   mpc, issues, ret, callerDone, cancelCalled>>

\* A closer that ends without closing ch.
CloserNoClose ==
    /\ cpc = "close"
    /\ cpc' = "exit"
    /\ UNCHANGED <<dedupeVars, lfVars>>
    /\ UNCHANGED <<catalog, wpc, sresp, idx, languages, werr, reqs, errors, wg, closed,
                   mpc, issues, ret, callerDone, cancelCalled>>

\* close(ch)
CloserClose ==
    /\ cpc = "close"
    /\ closed' = TRUE
    /\ cpc' = "exit"
    /\ UNCHANGED <<dedupeVars, lfVars>>
    /\ UNCHANGED <<catalog, wpc, sresp, idx, languages, werr, reqs, errors, wg, mpc,
                   issues, ret, callerDone, cancelCalled>>

\* A fan-in loop that returns the error without calling cancel().
RecvErrorNoCancel ==
    /\ mpc = "loop"
    /\ errors # <<>>
    /\ errors' = Tail(errors)
    /\ ret' = [issues |-> <<>>, isNil |-> TRUE, err |-> Head(errors)]
    /\ mpc' = "returned"
    /\ UNCHANGED <<dedupeVars, lfVars>>
    /\ UNCHANGED <<catalog, wpc, sresp, idx, languages, werr, reqs, wg, closed, cpc,
                   issues, callerDone, cancelCalled>>

\* "case err := <-errors: cancel(); return nil, err"
RecvError ==
    /\ mpc = "loop"
    /\ errors # <<>>
    /\ errors' = Tail(errors)
    /\ cancelCalled' = TRUE
    /\ ret' = [issues |-> <<>>, isNil |-> TRUE, err |-> Head(errors)]
    /\ mpc' = "returned"
    /\ UNCHANGED <<dedupeVars, lfVars>>
    /\ UNCHANGED <<catalog, wpc, sresp, idx, languages, werr, reqs, wg, closed, cpc,
                   issues, callerDone>>

\* "case i, open := <-ch: if !open { return dedupe(issues), nil }", and the
\* deferred cancel().
RecvClosed ==
    /\ mpc = "loop"
    /\ closed
    /\ ret' = [issues |-> dedupe(issues), isNil |-> FALSE, err |-> NoErr]
    /\ cancelCalled' = TRUE
    /\ mpc' = "returned"
    /\ UNCHANGED <<dedupeVars, lfVars>>
    /\ UNCHANGED <<catalog, wpc, sresp, idx, languages, werr, reqs, errors, wg, closed,
                   cpc, issues, callerDone>>

\* The caller's context ends (the client of the request went away) while
\* fetchIssues runs. After fetchIssues has returned the child context is
\* done in any case.
CallerCancel ==
    /\ mpc = "loop"
    /\ ~callerDone
    /\ callerDone' = TRUE
    /\ UNCHANGED <<dedupeVars, lfVars>>
    /\ UNCHANGED <<catalog, wpc, sresp, idx, languages, werr, reqs, errors, wg, closed,
                   cpc, mpc, issues, ret, cancelCalled>>

Next ==
    \/ \E w \in labels : Search(w)
    \/ \E w \in labels : FetchLanguages(w)
    \/ \E w \in labels : ParseRepo(w)
    \/ \E w \in labels : SendIssue(w)
    \/ \E w \in labels : StopEarly(w)
    \/ \E w \in labels : ReportError(w)
    \/ \E w \in labels : WgDone(w)
    \/ CloserWait
    \/ CloserClose
    \/ RecvError
    \/ RecvClosed
    \/ CallerCancel

\* ------------------------------------------------- dedupe, applied

DedupeOff ==
    /\ dedupeIn = <<>>
    /\ dedupeOut = <<>>
    /\ dedupeTwice = <<>>
    /\ dpc = "off"

DedupeInit ==
    /\ dedupeIn \in SeqsUpTo(DedupeIssues, MaxLen)
    /\ dedupeOut = <<>>
    /\ dedupeTwice = <<>>
    /\ dpc = "start"

DedupeCall ==
    /\ dpc = "start"
    /\ dedupeOut' = dedupe(dedupeIn)
    /\ dpc' = "once"
    /\ UNCHANGED <<pipeVars, lfVars, dedupeIn, dedupeTwice>>

DedupeAgain ==
    /\ dpc = "once"
    /\ dedupeTwice' = dedupe(dedupeOut)
    /\ dpc' = "twice"
    /\ UNCHANGED <<pipeVars, lfVars, dedupeIn, dedupeOut>>

\* ------------------------------------------ one languageFetcher instance

\* The urls repoLanguages is called with on the one instance.
LFRepoURLs == {"r1", "r2"}

\* The mappings the endpoint answers with in SpecLF: none, the example, two
\* languages of equal weight, a single language.
LFData ==
    { <<>>, ExampleData, [l \in {"Go", "HTML"} |-> 10], [l \in {"HTML"} |-> 50] }

LFInit ==
    /\ fetchedRepos = newLanguageFetcher
    /\ calls = <<>>

\* One call lf.repoLanguages(ctx, u, token), the context done or not, the
\* endpoint answering resp, the decoded map iterated in order.
Call(u, done, resp, order) ==
    LET r == repoLanguages(fetchedRepos, done, u, resp, order)
    IN /\ fetchedRepos' = r.fetchedRepos
       /\ calls' = Append(calls,
             [repoURL |-> u, done |-> done,
              resp |-> IF r.outbound THEN resp ELSE NoLang,
              langs |-> r.langs, err |-> r.err, outbound |-> r.outbound])

\* A call on the instance of SpecLF.
LFCall ==
    /\ Len(calls) < MaxCalls
    /\ \E u \in LFRepoURLs, done \in BOOLEAN, resp \in LangResponsesOf(LFData) :
         \E order \in Orders(DOMAIN resp.data) : Call(u, done, resp, order)
    /\ UNCHANGED <<pipeVars, dedupeVars>>

\* The one call of SpecRank: a fresh fetcher, a live context, a decodable
\* 200 answer holding any mapping.
RankCall ==
    /\ calls = <<>>
    /\ \E data \in AllData : \E order \in Orders(DOMAIN data) :
         Call("r1", FALSE,
              [doErr |-> FALSE, status |-> StatusOK, decodeErr |-> FALSE, data |-> data],
              order)
    /\ UNCHANGED <<pipeVars, dedupeVars>>

\* --------------------------------------------------------- specifications

vars == <<pipeVars, dedupeVars, lfVars>>

Init == PipeInit /\ DedupeOff /\ LFInit
Spec == Init /\ [][Next]_vars

\* The steps of one worker goroutine, of the closer goroutine and of
\* fetchIssues' own loop.
Worker(w) ==
    \/ Search(w)
    \/ FetchLanguages(w)
    \/ ParseRepo(w)
    \/ SendIssue(w)
    \/ StopEarly(w)
    \/ ReportError(w)
    \/ WgDone(w)
Closer == CloserWait \/ CloserClose
FanIn == RecvError \/ RecvClosed

\* Go's scheduler runs every goroutine that can take a step, and every http
\* call returns: each goroutine is weakly fair. Nothing obliges the caller
\* to cancel.
Fairness ==
    /\ \A w \in labels : WF_vars(Worker(w))
    /\ WF_vars(Closer)
    /\ WF_vars(FanIn)
\* Termination is checked for the catalog whose items take every path of
\* the range loop: one item is sent, the other fails to parse.
FairCatalogs == {{Item1, ItemBadRepo}}
InitFair == Init /\ catalog \in FairCatalogs
SpecFair == InitFair /\ [][Next]_vars /\ Fairness

InitDedupe == PipeOff /\ DedupeInit /\ LFInit
NextDedupe == DedupeCall \/ DedupeAgain
SpecDedupe == InitDedupe /\ [][NextDedupe]_vars

InitLF == PipeOff /\ DedupeOff /\ LFInit
NextLF == LFCall
SpecLF == InitLF /\ [][NextLF]_vars

NextRank == RankCall
SpecRank == InitLF /\ [][NextRank]_vars

\* ------------------------------------------------------------------ claims

\* The positions of in that hold the first record of their URL.
FirstPositions(in) ==
    {k \in 1..Len(in) : \A j \in 1..(k - 1) : in[j].URL # in[k].URL}

\* The m-th smallest member of the set of positions P.
NthOf(P, m) == CHOOSE k \in P : Cardinality({j \in P : j <= k}) = m

\* C5. dedupe first-occurrence: the output of dedupe holds no two records of
\* one URL, holds a record for every URL of the input, and is the input's
\* subsequence of each URL's first occurrence, in the input's order.
C5_DedupeFirstOccurrence ==
    dpc # "start" /\ dpc # "off" =>
        LET P == FirstPositions(dedupeIn)
        IN /\ \A a, b \in 1..Len(dedupeOut) :
                a # b => dedupeOut[a].URL # dedupeOut[b].URL
           /\ {r.URL : r \in Range(dedupeIn)} = {r.URL : r \in Range(dedupeOut)}
           /\ Len(dedupeOut) = Cardinality(P)
           /\ \A m \in 1..Len(dedupeOut) : dedupeOut[m] = dedupeIn[NthOf(P, m)]

\* dedupe has run on a list whose first and third records share a URL and
\* differ in their title, with another URL between them.
C5_Witness ==
    /\ dpc = "once"
    /\ Len(dedupeIn) = 3
    /\ dedupeIn[1].URL = dedupeIn[3].URL
    /\ dedupeIn[1].Title # dedupeIn[3].Title
    /\ dedupeIn[2].URL # dedupeIn[1].URL
    /\ Len(dedupeOut) = 2

\* C6. dedupe idempotence: dedupe(dedupe(x)) = dedupe(x) for every input x,
\* and an input whose URLs are pairwise distinct comes back unchanged.
C6_DedupeIdempotent ==
    /\ dpc = "twice" => dedupeTwice = dedupeOut
    /\ (/\ dpc \in {"once", "twice"}
        /\ \A a, b \in 1..Len(dedupeIn) : a # b => dedupeIn[a].URL # dedupeIn[b].URL)
       => dedupeOut = dedupeIn

\* dedupe has run twice, starting from a list with a repeated URL that the
\* first run shortened.
C6_Witness ==
    /\ dpc = "twice"
    /\ Len(dedupeIn) = 3
    /\ Len(dedupeOut) = 2
    /\ dedupeTwice = dedupeOut

\* fetchIssues has returned.
Returned == mpc = "returned"

\* Some worker's issueSearch call returned a non-nil error.
SomeWorkerFailed == \E w \in labels : werr[w] # NoErr

\* The URLs of the records of a list.
URLsOf(list) == {r.URL : r \in Range(list)}

\* The URLs among the items that the labels' searches returned.
SearchedURLs == {it.url : it \in UNION {Range(sresp[w].items) : w \in labels}}

\* No two records of the list share a URL.
OnePerURL(list) == \A a, b \in 1..Len(list) : a # b => list[a].URL # list[b].URL

\* The sum of the function f over the set S.
RECURSIVE SumOver(_, _)
SumOver(S, f) ==
    IF S = {} THEN 0
    ELSE LET x == CHOOSE y \in S : TRUE IN f[x] + SumOver(S \ {x}, f)

\* How many of worker w's items are the item it.
ItemCount(w, it) == Cardinality({k \in DOMAIN sresp[w].items : sresp[w].items[k] = it})

\* C1. First-failure short-circuit: in a run in which some worker's
\* issueSearch returned a non-nil error, fetchIssues returns a non-nil error
\* and a nil list, never a list with a nil error.
C1_FirstFailureShortCircuit ==
    Returned /\ SomeWorkerFailed => ret.err # NoErr /\ ret.isNil

\* C2. No partial success: when fetchIssues returns a nil error, the list it
\* returns holds one record for every distinct URL among the items the
\* labels' searches returned, also when the caller's context was cancelled
\* while workers waited to send.
C2_NoPartialSuccess ==
    Returned /\ ret.err = NoErr =>
        /\ ~ret.isNil
        /\ URLsOf(ret.issues) = SearchedURLs
        /\ OnePerURL(ret.issues)

\* C3. Fan-in completeness under success: if no worker failed and the
\* context was not cancelled, then when the fan-in loop sees the result
\* channel closed, the accumulated list holds exactly the records the
\* workers were to send, each once: its length is the sum of the lengths
\* of the labels' item lists.
C3_FanInComplete ==
    (/\ Returned
     /\ ret.err = NoErr
     /\ ~SomeWorkerFailed
     /\ ~callerDone)
    => /\ Len(issues) = SumOver(labels, [w \in labels |-> Len(sresp[w].items)])
       /\ \A it \in Items :
            Cardinality({k \in DOMAIN issues :
                            issues[k].Title = it.title /\ issues[k].URL = it.url})
              = SumOver(labels, [w \in labels |-> ItemCount(w, it)])

\* fetchIssues has returned on the close after both workers delivered two
\* records each, with no failure and no cancellation.
C3_Witness ==
    /\ Returned
    /\ ret.err = NoErr
    /\ ~SomeWorkerFailed
    /\ ~callerDone
    /\ \A w \in labels : Len(sresp[w].items) = 2
    /\ Len(issues) = 4

\* Every lookup of the run succeeded: each search and each languages request
\* was answered with a decodable 200, and no worker returned an error.
AllLookupsSucceeded ==
    /\ ~SomeWorkerFailed
    /\ \A w \in labels :
        /\ wpc[w] # "search"
        /\ sresp[w].status = StatusOK /\ ~sresp[w].doErr /\ ~sresp[w].decodeErr
        /\ \A k \in DOMAIN reqs[w] :
            /\ reqs[w][k].resp.status = StatusOK
            /\ ~reqs[w][k].resp.doErr
            /\ ~reqs[w][k].resp.decodeErr

\* C4. Race-independent final result: when the labels' searches return
\* overlapping items and all lookups succeed, the list fetchIssues returns
\* holds exactly one record per URL of the union of the searches' URLs,
\* whichever worker delivered a shared URL first; for one label returning
\* [u1] and the other [u1, u2] it holds exactly two records, for u1 and u2.
C4_RaceIndependentResult ==
    Returned /\ AllLookupsSucceeded =>
        /\ ret.err = NoErr
        /\ URLsOf(ret.issues) = SearchedURLs
        /\ OnePerURL(ret.issues)
        /\ (\E a, b \in labels :
              /\ a # b
              /\ sresp[a].items = <<Item1>>
              /\ sresp[b].items = <<Item1, Item2>>)
           => Len(ret.issues) = 2 /\ URLsOf(ret.issues) = {"u1", "u2"}

\* C7. Search status error: when the search endpoint answers with a status
\* other than 200, issueSearch returns a non-nil error, so the worker
\* reports a failure and sends no record for that label.
C7_SearchStatusError ==
    \A w \in labels :
        (wpc[w] # "search" /\ ~sresp[w].doErr /\ sresp[w].status \notin {0, StatusOK})
        => werr[w] # NoErr

\* C8. Languages status error: when the languages endpoint answers with a
\* status other than 200, repoLanguages returns a non-nil error, the worker
\* aborts its remaining items with it, and no record is built for the item.
C8_LanguagesStatusError ==
    \A w \in labels : \A k \in DOMAIN reqs[w] :
        (~reqs[w][k].resp.doErr /\ reqs[w][k].resp.status # StatusOK)
        => /\ werr[w] # NoErr
           /\ wpc[w] \in {"report", "done", "exit"}
           /\ Len(reqs[w]) = k

\* C9. Top-3 ranking: for every language-to-weight mapping the endpoint
\* returns, also one in which two languages weigh the same, repoLanguages
\* returns min(3, number of languages) pairwise distinct names of the
\* mapping, in non-increasing order of weight, and no omitted language
\* weighs more than a returned one; for {Go:500, HTML:300, CSS:50, JS:10}
\* it returns [Go, HTML, CSS].
C9_TopThreeRanking ==
    \A c \in Range(calls) :
        (c.outbound /\ ~c.resp.doErr /\ c.resp.status = StatusOK /\ ~c.resp.decodeErr)
        => LET d == c.resp.data
               l == c.langs
           IN /\ c.err = NoErr
              /\ Len(l) = Min(3, Cardinality(DOMAIN d))
              /\ Range(l) \subseteq DOMAIN d
              /\ \A a, b \in 1..Len(l) : a # b => l[a] # l[b]
              /\ \A a, b \in 1..Len(l) : a < b => d[l[a]] >= d[l[b]]
              /\ \A o \in DOMAIN d \ Range(l) : \A a \in 1..Len(l) : d[o] <= d[l[a]]
              /\ d = ExampleData => l = <<"Go", "HTML", "CSS">>

\* C10. Cache hit suppresses re-fetch: on one languageFetcher, once a call
\* has returned a non-empty list for a url, every later call for that url
\* returns the same list with no error and sends no request, whatever calls
\* for other urls came in between.
C10_CacheHitSuppressesRefetch ==
    \A j, k \in 1..Len(calls) :
        (/\ j < k
         /\ calls[j].repoURL = calls[k].repoURL
         /\ calls[j].err = NoErr
         /\ calls[j].langs # <<>>)
        => /\ calls[k].langs = calls[j].langs
           /\ calls[k].err = NoErr
           /\ ~calls[k].outbound

\* A url was resolved to a non-empty list, then another url was fetched and
\* resolved, then the first url was asked for again.
C10_Witness ==
    /\ Len(calls) = 3
    /\ calls[1].repoURL = calls[3].repoURL
    /\ calls[1].outbound /\ calls[1].err = NoErr /\ calls[1].langs # <<>>
    /\ calls[2].repoURL # calls[1].repoURL
    /\ calls[2].outbound /\ calls[2].err = NoErr /\ calls[2].langs # <<>>
    /\ calls[3].langs = calls[1].langs

\* C11. Non-empty identity: every record a worker sends on the result
\* channel, and so every record of the list fetchIssues returns, has a
\* non-empty URL, whatever items the search returned (also items whose url
\* field is missing or empty).
C11_NonEmptyURL ==
    /\ \A k \in DOMAIN issues : issues[k].URL # ""
    /\ Returned => \A k \in DOMAIN ret.issues : ret.issues[k].URL # ""

\* The languages request k of worker w was answered with a non-empty list.
ResolvedNonEmpty(w, k) ==
    LET r == reqs[w][k].resp
    IN ~r.doErr /\ r.status = StatusOK /\ ~r.decodeErr /\ r.data # <<>>

\* C12. Per-worker language cache: within one issueSearch call at most one
\* languages request leaves per resource URL whose language list is
\* non-empty, however many of the worker's items reference the resource:
\* once a request of the worker was answered with a non-empty list, the
\* worker sends no later request for the same URL.
C12_PerWorkerCache ==
    \A w \in labels :
        ~\E j, k \in DOMAIN reqs[w] :
            /\ j < k
            /\ reqs[w][j].repoURL = reqs[w][k].repoURL
            /\ ResolvedNonEmpty(w, j)

\* A worker delivers a record in this step.
Delivers == Len(issues') > Len(issues)

\* A request leaves a worker for the search or the languages endpoint in
\* this step.
SendsRequest ==
    \E w \in labels :
        \/ Len(reqs'[w]) > Len(reqs[w])
        \/ wpc[w] = "search" /\ wpc'[w] # "search" /\ sresp'[w] # NoSearch

\* C13. Cooperative cancellation: once the shared child context is
\* cancelled (by fetchIssues after the first failure, or by the caller), no
\* worker delivers another record on the result channel and no worker
\* starts another outbound request, also when a receiver is ready on the
\* result channel at that moment.
C13_CooperativeCancellation ==
    [][ctxDone => ~Delivers /\ ~SendsRequest]_vars

\* What issueSearch returns when http.DefaultClient.Do is called on a done
\* context.
CancelErr == Wrapf(DoErr(TRUE, NoSearch), "could not execute request")

\* The errors of a worker's own failed step: transport, decode, parse.
OwnErrors ==
    { Wrapf("connection refused", "could not execute request"),
      Wrapf("unexpected EOF", "could not decode json"),
      Wrapf("malformed repo url", "could not identify repo") }

\* Worker w leaves its select in this step without delivering its record.
StopsAtSelect(w) == wpc[w] = "send" /\ wpc'[w] # "send" /\ ~Delivers

\* Worker w makes an http call on the done context in this step.
CallsOnDoneCtx(w) == ctxDone /\ wpc[w] \in {"search", "lang"} /\ wpc'[w] # wpc[w]

C15_CloseAfterLastSend ==
    /\ closed <=> cpc = "exit"
    /\ cpc \in {"close", "exit"} => wg = 0 /\ \A w \in labels : wpc[w] = "exit"
    /\ closed => \A w \in labels : wpc[w] # "send"
    /\ wg = Cardinality({w \in labels : wpc[w] # "exit"})

\* fetchIssues has returned an error, and the channel has been closed after
\* a worker whose search had returned items left its select without an
\* error.
C15_Witness ==
    /\ closed
    /\ Returned
    /\ ret.err # NoErr
    /\ \E w \in labels : sresp[w].items # <<>> /\ werr[w] = NoErr /\ issues = <<>>

\* The workers that have sent their error on the error channel.
Reported == {w \in labels : werr[w] # NoErr /\ wpc[w] \in {"done", "exit"}}

\* C16. Error reporting never blocks: each worker sends at most one value on
\* the error channel, the number of buffered errors never exceeds the
\* number of labels, and a worker that is to report its error can always do
\* so at once and go on to wg.Done(), also when the fan-in loop has stopped
\* receiving from the error channel.
C16_ErrorReportNeverBlocks ==
    /\ Len(errors) <= Cardinality(labels)
    /\ Len(errors) <= Cardinality(Reported)
    /\ Cardinality(Reported) <= Len(errors) + (IF Returned /\ ret.err # NoErr THEN 1 ELSE 0)
    /\ \A w \in labels : wpc[w] = "report" => ENABLED ReportError(w)

\* fetchIssues has returned the first error, cancelled the context and
\* receives no more; the other worker then failed on the cancelled context,
\* put its error into the buffer and reached the end of its goroutine.
C16_Witness ==
    /\ Returned
    /\ ret.err # NoErr
    /\ ~callerDone
    /\ errors = <<CancelErr>>
    /\ \A w \in labels : werr[w] # NoErr /\ wpc[w] = "exit"

\* C17. fetchIssues terminates: under fair scheduling, every http call
\* returning, every call of fetchIssues eventually returns, through a
\* received error or through the close of the result channel; the fan-in
\* loop does not wait forever with all workers finished.
C17_FetchIssuesTerminates == <>Returned

\* fetchIssues has returned through the close of the result channel with
\* records delivered.
C17_Witness ==
    /\ Returned
    /\ closed
    /\ ret.err = NoErr
    /\ ~ret.isNil
    /\ Len(issues) = 4

\* Every worker goroutine and the closer goroutine have ended.
AllExited == cpc = "exit" /\ \A w \in labels : wpc[w] = "exit"

\* C18. No stranded goroutines: once fetchIssues has returned, with an error
\* or with a list, under fair scheduling every worker goroutine and the
\* closer goroutine eventually end; no worker stays blocked at its send on
\* the result channel or at its send on the error channel.
C18_NoStrandedGoroutines ==
    /\ Returned ~> AllExited
    /\ \A w \in labels : (wpc[w] \in {"send", "report"}) ~> (wpc[w] = "exit")

\* fetchIssues returned an error while the caller's context was live; a
\* worker whose search had returned items, none of them delivered, has left
\* its select, and every goroutine has ended.
C18_Witness ==
    /\ Returned
    /\ ret.err # NoErr
    /\ ~callerDone
    /\ AllExited
    /\ issues = <<>>
    /\ \E w \in labels : sresp[w].items # <<>> /\ werr[w] = NoErr

\* C19. Parse before fetch: for each item the worker derives the repository
\* from item.RepoURL before it fetches the languages, so no languages
\* request ever leaves for an item whose repository URL is malformed.
C19_ParseBeforeFetch ==
    \A w \in labels : \A k \in DOMAIN reqs[w] :
        repoFromURL(reqs[w][k].repoURL).err = NoErr

\* Call j is the latest call before call k for the url of call k.
LatestBefore(j, k) ==
    /\ j < k
    /\ calls[j].repoURL = calls[k].repoURL
    /\ \A i \in (j + 1)..(k - 1) : calls[i].repoURL # calls[k].repoURL

\* C20. Empty list is a cache miss: on one languageFetcher, when a lookup
\* of a url resolved to an empty list, the next call for that url is a miss:
\* it goes to the endpoint again and sends a new languages request (on a
\* done context http.DefaultClient.Do fails before sending and the call
\* returns that error); it never returns the empty list from the cache.
C20_EmptyListIsMiss ==
    \A j, k \in 1..Len(calls) :
        (/\ LatestBefore(j, k)
         /\ calls[j].err = NoErr
         /\ calls[j].langs = <<>>)
        => IF calls[k].done
             THEN ~calls[k].outbound /\ calls[k].err # NoErr
             ELSE calls[k].outbound

\* A url's lookup was answered 200 with an empty mapping and resolved to an
\* empty list; the next call for the url, on a live context, sent a new
\* request, which resolved to a non-empty list.
C20_Witness ==
    /\ Len(calls) >= 2
    /\ calls[1].outbound
    /\ calls[1].resp.status = StatusOK
    /\ calls[1].err = NoErr
    /\ calls[1].langs = <<>>
    /\ calls[2].repoURL = calls[1].repoURL
    /\ ~calls[2].done
    /\ calls[2].outbound
    /\ calls[2].langs # <<>>

====
